---- MODULE Spec2Model ----
(***************************************************************************)
(* A model of the jsdoc-powermode template: the publish entry point of     *)
(* templates/default/publish.js as a sequential state machine, and the     *)
(* pure helpers parse (power-configurator.helper.js) and needsSignature.   *)
(*                                                                         *)
(* The host library (jsdoc/util/templateHelper, jsdoc/path, jsdoc/fs) is   *)
(* not part of the repository.  Its functions are modelled at their call   *)
(* sites by the contract the calling code relies on: getUniqueFilename     *)
(* hands out a file name nobody holds yet, and createLink resolves a       *)
(* longname through the link table when a link is registered for it (the   *)
(* reason publish.js:402 gives for not registering 'index').               *)
(***************************************************************************)
EXTENDS Integers, Sequences, FiniteSets, TLC

\* Doclets plus tutorials handed to one publish call.
MaxInput == 3
\* Type names of one typedef doclet.
MaxNames == 2

-----------------------------------------------------------------------------
(* JavaScript values, as far as parse reads them *)

JsUndefined == [t |-> "undefined", v |-> "undefined"]
JsNull == [t |-> "null", v |-> "null"]
JsTrue == [t |-> "boolean", v |-> "true"]
JsFalse == [t |-> "boolean", v |-> "false"]

JsPrimitives ==
  {JsUndefined, JsNull, JsTrue, JsFalse,
   [t |-> "number", v |-> "0"], [t |-> "number", v |-> "1"],
   [t |-> "string", v |-> ""], [t |-> "string", v |-> "true"],
   [t |-> "string", v |-> "false"]}

\* An object literal; a property it does not have reads as undefined.
JsObject(dsm, srt) ==
  [t |-> "object", v |-> "object", displayStaticMembers |-> dsm, sort |-> srt]

EmptyObject == JsObject(JsUndefined, JsUndefined)

PropertyValues == JsPrimitives \cup {EmptyObject}

JsValues ==
  JsPrimitives \cup {JsObject(d, s) : d \in PropertyValues, s \in PropertyValues}

\* ToBoolean
Truthy(x) ==
  ~ \/ x.t \in {"undefined", "null"}
    \/ x = JsFalse
    \/ x = [t |-> "number", v |-> "0"]
    \/ x = [t |-> "string", v |-> ""]

\* a || b
JsOr(a, b) == IF Truthy(a) THEN a ELSE b

\* Property reads of config: config is never undefined or null here.
GetDisplayStaticMembers(config) ==
  IF config.t = "object" THEN config.displayStaticMembers ELSE JsUndefined

GetSort(config) ==
  IF config.t = "object" THEN config.sort ELSE JsUndefined

\* Variant: value ? value : defaultValue.
trueOrNotWithDefaultTruthy(value, defaultValue) ==
  IF Truthy(value) THEN value ELSE defaultValue

trueOrNotWithDefault(value, defaultValue) ==
  IF value = JsTrue \/ value = JsFalse THEN value ELSE defaultValue

\* parse(object): the results of the two closures it returns.
parse(object) ==
  LET config == JsOr(object, EmptyObject)
      defaults == [displayStaticMembers |-> JsFalse, sort |-> JsTrue]
  IN  [shouldDisplayStaticMembers |->
         trueOrNotWithDefault(GetDisplayStaticMembers(config),
                              defaults.displayStaticMembers),
       shouldSort |-> trueOrNotWithDefault(GetSort(config), defaults.sort)]

-----------------------------------------------------------------------------
(* needsSignature *)

TypeNameValues == {"function", "Function", "FUNCTION", "string", "Functions"}

toLowerCase(s) ==
  CASE s = "Function" -> "function"
    [] s = "FUNCTION" -> "function"
    [] s = "Functions" -> "functions"
    [] OTHER -> s

NoType == [present |-> FALSE, namesPresent |-> FALSE, names |-> <<>>]
TypeOf(ns) == [present |-> TRUE, namesPresent |-> TRUE, names |-> ns]

RECURSIVE NamesLoop(_, _)
\* the for loop over doclet.type.names, from index i on
NamesLoop(names, i) ==
  IF i > Len(names) THEN FALSE
  ELSE IF toLowerCase(names[i]) = "function" THEN TRUE
  ELSE NamesLoop(names, i + 1)

\* Variant: the type names compared without toLowerCase.
needsSignatureExact(doclet) ==
  IF doclet.kind = "function" \/ doclet.kind = "class" THEN TRUE
  ELSE IF /\ doclet.kind = "typedef"
          /\ doclet.type.present
          /\ doclet.type.namesPresent
          /\ Len(doclet.type.names) > 0
       THEN \E k \in 1..Len(doclet.type.names) :
              doclet.type.names[k] = "function"
  ELSE FALSE

needsSignature(doclet) ==
  IF doclet.kind = "function" \/ doclet.kind = "class" THEN TRUE
  ELSE IF /\ doclet.kind = "typedef"
          /\ doclet.type.present
          /\ doclet.type.namesPresent
          /\ Len(doclet.type.names) > 0
       THEN NamesLoop(doclet.type.names, 1)
  ELSE FALSE

-----------------------------------------------------------------------------
(* The publish call's inputs *)

NoMeta == [present |-> FALSE, path |-> <<>>, filename |-> ""]
Meta(p, f) == [present |-> TRUE, path |-> p, filename |-> f]

Doclet(ln, k, n, m, ty, ver) ==
  [longname |-> ln, kind |-> k, name |-> n, meta |-> m, type |-> ty,
   version |-> ver]

\* The doclets a call may be handed, in the order data.sort('longname, ...')
\* leaves them.
DocletUniverse ==
  << Doclet("B", "class", "B", Meta(<<"lib">>, "b.js"), NoType, ""),
     Doclet("E", "external", "E", NoMeta, NoType, ""),
     Doclet("I", "interface", "I", NoMeta, NoType, ""),
     Doclet("N", "mixin", "N", Meta(<<"lib", "sub">>, "c.js"), NoType, ""),
     Doclet("f", "function", "f", Meta(<<"lib">>, "a.js"), NoType, ""),
     Doclet("global", "namespace", "global", Meta(<<"lib">>, "b.js"), NoType, ""),
     Doclet("index", "class", "index", Meta(<<"lib">>, "a.js"), NoType, ""),
     Doclet("module:A", "module", "A", Meta(<<"lib">>, "a.js"), NoType, ""),
     Doclet("module:A", "class", "A", Meta(<<"lib">>, "a.js"), NoType, ""),
     Doclet("package:", "package", "", NoMeta, NoType, ""),
     Doclet("package:pkg", "package", "pkg", NoMeta, NoType, "1.0"),
     Doclet("t", "typedef", "t", NoMeta, TypeOf(<<"Function">>), "") >>

\* The doclets of DocletUniverse at the positions in S, in order.
DataOf(S) ==
  LET F[k \in 0..Len(DocletUniverse)] ==
        IF k = 0 THEN <<>>
        ELSE IF k \in S THEN Append(F[k - 1], DocletUniverse[k])
        ELSE F[k - 1]
  IN  F[Len(DocletUniverse)]

\* env.conf: absent, or with templates / templates.default absent or present;
\* outputSourceFiles is "undefined", "true" or "false".
ConfValues ==
  { c \in [present : BOOLEAN, templates : BOOLEAN, default : BOOLEAN,
           outputSourceFiles : {"undefined", "true", "false"}] :
      /\ c.templates => c.present
      /\ c.default => c.templates
      /\ c.outputSourceFiles # "undefined" => c.default }

\* A tutorial tree over tutorials 1..n: parent[k] is k's parent, 0 the root.
RECURSIVE ReachesRoot(_, _, _)
ReachesRoot(parent, k, fuel) ==
  IF k = 0 THEN TRUE
  ELSE IF fuel = 0 THEN FALSE
  ELSE ReachesRoot(parent, parent[k], fuel - 1)

TutorialTrees(n) ==
  { p \in [1..n -> 0..n] : \A k \in 1..n : ReachesRoot(p, k, n) }

\* node.children, in order
Children(parent, node) ==
  LET F[k \in 0..Len(parent)] ==
        IF k = 0 THEN <<>>
        ELSE IF parent[k] = node THEN Append(F[k - 1], k)
        ELSE F[k - 1]
  IN  F[Len(parent)]

-----------------------------------------------------------------------------
(* Host helpers, as publish.js uses them *)

\* jsdoc/path: path.normalize(env.opts.destination)
Destination == <<"out">>

\* path.join of components
PathString(p) ==
  CASE p = <<"a.js">> -> "a.js"
    [] p = <<"b.js">> -> "b.js"
    [] p = <<"c.js">> -> "c.js"
    [] p = <<"sub", "c.js">> -> "sub/c.js"
    [] p = <<"lib", "a.js">> -> "lib/a.js"
    [] p = <<"lib", "b.js">> -> "lib/b.js"
    [] p = <<"lib", "sub", "c.js">> -> "lib/sub/c.js"
    [] OTHER -> "?"

\* The characters getUniqueFilename replaces in a name.
FileBase(str) ==
  CASE str = "module:A" -> "module-A"
    [] str = "package:" -> "package_"
    [] str = "package:pkg" -> "package_pkg"
    [] str = "sub/c.js" -> "sub_c.js"
    [] OTHER -> str

\* templateHelper.getUniqueFilename: base plus as many underscores as it takes
\* to be a name not yet in the registry fs.
getUniqueFilename(fs, base) ==
  LET n == CHOOSE k \in 0..Cardinality(fs) :
             /\ [base |-> base, n |-> k] \notin fs
             /\ \A j \in 0..(k - 1) : [base |-> base, n |-> j] \in fs
  IN  [base |-> base, n |-> n]

Url(file, frag) == [file |-> file, frag |-> frag]

\* The link table longnameToUrl, in insertion order (Object.keys order).
Has(tbl, key) == \E k \in 1..Len(tbl) : tbl[k].key = key

Lookup(tbl, key) ==
  tbl[CHOOSE k \in 1..Len(tbl) : tbl[k].key = key].url

\* templateHelper.registerLink
registerLink(tbl, key, url) ==
  IF Has(tbl, key)
  THEN [k \in 1..Len(tbl) |->
          IF tbl[k].key = key THEN [key |-> key, url |-> url] ELSE tbl[k]]
  ELSE Append(tbl, [key |-> key, url |-> url])

Containers ==
  {"class", "module", "external", "namespace", "mixin", "interface"}

\* templateHelper.createLink: the file of a registered longname, else a new
\* unique file, which it registers; a doclet that is no container lives in the
\* page of the global scope.
createLink(fs, tbl, doclet) ==
  LET owner == IF doclet.kind \in Containers THEN doclet.longname ELSE "global"
      frag == IF doclet.kind \in Containers THEN "" ELSE doclet.name
  IN  IF Has(tbl, owner)
      THEN [url |-> Url(Lookup(tbl, owner).file, frag), files |-> fs,
            table |-> tbl]
      ELSE LET u == getUniqueFilename(fs, FileBase(owner))
           IN  [url |-> Url(u, frag), files |-> fs \cup {u},
                table |-> registerLink(tbl, owner, Url(u, ""))]

\* tutorial.name of tutorial k
TutorialName(k) ==
  CASE k = 0 -> "index" [] k = 1 -> "t1" [] k = 2 -> "t2" [] k = 3 -> "t3" [] k = 4 -> "t4"
    [] k = 5 -> "t5" [] OTHER -> "t6"

\* templateHelper.tutorialToUrl: 'tutorial-' + the tutorial's file name
tutorialToUrl(k) ==
  CASE k = 1 -> Url([base |-> "tutorial-t1", n |-> 0], "")
    [] k = 2 -> Url([base |-> "tutorial-t2", n |-> 0], "")
    [] k = 3 -> Url([base |-> "tutorial-t3", n |-> 0], "")
    [] k = 4 -> Url([base |-> "tutorial-t4", n |-> 0], "")
    [] k = 5 -> Url([base |-> "tutorial-t5", n |-> 0], "")
    [] OTHER -> Url([base |-> "tutorial-t6", n |-> 0], "")

\* templateHelper.find(data, {kind: kind})
FindKind(docs, kind) == SelectSeq(docs, LAMBDA d : d.kind = kind)

\* templateHelper.getMembers(data).globals
Globals(docs) ==
  SelectSeq(docs, LAMBDA d : d.kind \in {"member", "function", "constant", "typedef"})

IsPrefix(c, q) == Len(c) <= Len(q) /\ SubSeq(q, 1, Len(c)) = c

\* jsdoc/path commonPrefix: the directory all the paths share
CommonPrefix(paths) ==
  LET dirs == {SubSeq(q, 1, Len(q) - 1) : q \in paths}
      d0 == CHOOSE d \in dirs : TRUE
      m == CHOOSE k \in 0..Len(d0) :
             /\ \A d \in dirs : IsPrefix(SubSeq(d0, 1, k), d)
             /\ \A j \in (k + 1)..Len(d0) :
                  \E d \in dirs : ~IsPrefix(SubSeq(d0, 1, j), d)
  IN  SubSeq(d0, 1, m)

-----------------------------------------------------------------------------
(* publish.js helpers *)

getPathFromDoclet(doclet) ==
  IF ~doclet.meta.present THEN <<>>
  ELSE IF doclet.meta.path # <<>>
       THEN Append(doclet.meta.path, doclet.meta.filename)
  ELSE <<doclet.meta.filename>>

\* sourceFiles and sourceFilePaths after the first loop over the doclets: one
\* entry per distinct source path, in order of first appearance.
ScanSourceFiles(docs) ==
  LET F[k \in 0..Len(docs)] ==
        IF k = 0 THEN <<>>
        ELSE LET sp == getPathFromDoclet(docs[k])
             IN  IF ~docs[k].meta.present
                    \/ \E j \in 1..Len(F[k - 1]) : F[k - 1][j].resolved = sp
                 THEN F[k - 1]
                 ELSE Append(F[k - 1], [resolved |-> sp, shortened |-> "null"])
  IN  F[Len(docs)]

shortenPaths(files, commonPrefix) ==
  [k \in 1..Len(files) |->
     [resolved |-> files[k].resolved,
      shortened |->
        PathString(SubSeq(files[k].resolved, Len(commonPrefix) + 1,
                          Len(files[k].resolved)))]]

\* Variant: !!conf.default.outputSourceFiles.
OutputSourceFilesTruthy(c) == c.default /\ c.outputSourceFiles = "true"

\* !!(conf.default && conf.default.outputSourceFiles !== false); conf.default
\* is an object by then
OutputSourceFiles(c) == ~(c.default /\ c.outputSourceFiles = "false")

-----------------------------------------------------------------------------
VARIABLES
  pc,                \* where publish stands
  data,              \* the doclets
  conf,              \* env.conf as the call found it
  tutorials,         \* the tutorial tree
  outdir,            \* the output directory
  view,              \* the template handle
  files,             \* the host's registry of file names handed out
  longnameToUrl,     \* the host's link table
  indexUrl,
  globalUrl,
  sourceFiles,
  i,                 \* index of the loop publish is in
  signed,            \* positions of the doclets that got a signature
  outputSourceFiles,
  stack,             \* saveChildren's frames
  rendered,          \* calls of view.render
  written,           \* calls of fs.writeFileSync that returned
  errors,            \* exceptions thrown
  fnInput,           \* argument of the last helper call
  fnOutput           \* its result

publishVars ==
  <<pc, data, conf, tutorials, outdir, view, files, longnameToUrl, indexUrl,
    globalUrl, sourceFiles, i, signed, outputSourceFiles, stack, rendered,
    written, errors>>

helperVars == <<fnInput, fnOutput>>

vars == <<publishVars, helperVars>>

NoUrl == Url([base |-> "", n |-> 0], "")
NoConf ==
  [present |-> FALSE, templates |-> FALSE, default |-> FALSE,
   outputSourceFiles |-> "undefined"]

\* After the module is loaded: outdir is set from env.opts.destination, data
\* and view are declared.
Init ==
  /\ pc = "loaded"
  /\ data = <<>>
  /\ conf = NoConf
  /\ tutorials = <<>>
  /\ outdir = Destination
  /\ view = "undefined"
  /\ files = {}
  /\ longnameToUrl = <<>>
  /\ indexUrl = NoUrl
  /\ globalUrl = NoUrl
  /\ sourceFiles = <<>>
  /\ i = 0
  /\ signed = {}
  /\ outputSourceFiles = FALSE
  /\ stack = <<>>
  /\ rendered = <<>>
  /\ written = <<>>
  /\ errors = <<>>
  /\ fnInput = JsUndefined
  /\ fnOutput = [fn |-> "none"]

Throw(kind, at) ==
  Append(errors, [kind |-> kind, at |-> at, caught |-> FALSE,
                  nwritten |-> Len(written)])

\* The host calls publish(taffyData, opts, tutorials): data, conf,
\* templatePath, view.
Publish ==
  /\ pc = "loaded"
  /\ \E S \in SUBSET (1..Len(DocletUniverse)), c \in ConfValues :
       /\ Cardinality(S) <= MaxInput
       /\ \E p \in UNION {TutorialTrees(n) : n \in 0..(MaxInput - Cardinality(S))} :
            IF ~c.present
            THEN \* env.conf.templates of an env without conf
                 /\ errors' = Throw("config", "env.conf")
                 /\ pc' = "aborted"
                 /\ UNCHANGED <<data, conf, tutorials, view>>
            ELSE /\ data' = DataOf(S)
                 /\ conf' = [c EXCEPT !.templates = TRUE, !.default = TRUE]
                 /\ tutorials' = p
                 /\ view' = "template"
                 /\ pc' = "claim"
                 /\ UNCHANGED errors
  /\ UNCHANGED <<outdir, files, longnameToUrl, indexUrl, globalUrl,
                 sourceFiles, i, signed, outputSourceFiles, stack, rendered,
                 written, helperVars>>

\* Variant: 'index' is not claimed from the registry.
ClaimSpecialFilenamesNoIndex ==
  /\ pc = "claim"
  /\ LET gu == getUniqueFilename(files, FileBase("global"))
     IN  /\ indexUrl' = Url([base |-> "index", n |-> 0], "")
         /\ globalUrl' = Url(gu, "")
         /\ files' = files \cup {gu}
         /\ longnameToUrl' = registerLink(longnameToUrl, "global", Url(gu, ""))
  /\ pc' = "scan"
  /\ UNCHANGED <<data, conf, tutorials, outdir, view, sourceFiles, i, signed,
                 outputSourceFiles, stack, rendered, written, errors,
                 helperVars>>

\* Claim the file names of the Home and Global pages; view.layout,
\* setTutorials, prune, sort.
ClaimSpecialFilenames ==
  /\ pc = "claim"
  /\ LET iu == getUniqueFilename(files, FileBase("index"))
         gu == getUniqueFilename(files \cup {iu}, FileBase("global"))
     IN  /\ indexUrl' = Url(iu, "")
         /\ globalUrl' = Url(gu, "")
         /\ files' = files \cup {iu, gu}
         /\ longnameToUrl' = registerLink(longnameToUrl, "global", Url(gu, ""))
  /\ pc' = "scan"
  /\ UNCHANGED <<data, conf, tutorials, outdir, view, sourceFiles, i, signed,
                 outputSourceFiles, stack, rendered, written, errors,
                 helperVars>>

\* The first loop over the doclets: the list of source files.
ScanDoclets ==
  /\ pc = "scan"
  /\ sourceFiles' = ScanSourceFiles(data)
  /\ pc' = "outdir"
  /\ UNCHANGED <<data, conf, tutorials, outdir, view, files, longnameToUrl,
                 indexUrl, globalUrl, i, signed, outputSourceFiles, stack,
                 rendered, written, errors, helperVars>>

\* update outdir if necessary, then create outdir
UpdateOutdir ==
  /\ pc = "outdir"
  /\ LET packages == FindKind(data, "package")
         newdir ==
           IF Len(packages) > 0 /\ packages[1].name # ""
           THEN outdir \o <<packages[1].name>>
                  \o (IF packages[1].version # "" THEN <<packages[1].version>>
                      ELSE <<>>)
           ELSE outdir
     IN  /\ outdir' = newdir
         /\ \E ok \in BOOLEAN :
              IF ok
              THEN pc' = "static" /\ UNCHANGED errors
              ELSE pc' = "aborted" /\ errors' = Throw("mkPath", "outdir")
  /\ UNCHANGED <<data, conf, tutorials, view, files, longnameToUrl, indexUrl,
                 globalUrl, sourceFiles, i, signed, outputSourceFiles, stack,
                 rendered, written, helperVars>>

\* Copy the static files; shorten the source paths.
CopyStaticFiles ==
  /\ pc = "static"
  /\ \E ok \in BOOLEAN :
       IF ok
       THEN /\ sourceFiles' =
                 IF Len(sourceFiles) > 0
                 THEN shortenPaths(sourceFiles,
                        CommonPrefix({sourceFiles[k].resolved :
                                        k \in 1..Len(sourceFiles)}))
                 ELSE sourceFiles
            /\ pc' = IF Len(data) > 0 THEN "register" ELSE "signatures"
            /\ i' = 1
            /\ UNCHANGED errors
       ELSE /\ pc' = "aborted"
            /\ errors' = Throw("copy", "static")
            /\ UNCHANGED <<sourceFiles, i>>
  /\ UNCHANGED <<data, conf, tutorials, outdir, view, files, longnameToUrl,
                 indexUrl, globalUrl, signed, outputSourceFiles, stack,
                 rendered, written, helperVars>>

\* Variant: only the doclets with a page of their own are registered.
RegisterLinksContainersOnly ==
  /\ pc = "register"
  /\ LET cl == createLink(files, longnameToUrl, data[i])
     IN  /\ files' = cl.files
         /\ longnameToUrl' =
              IF data[i].kind \in Containers
              THEN registerLink(cl.table, data[i].longname, cl.url)
              ELSE cl.table
  /\ IF i < Len(data) THEN i' = i + 1 /\ pc' = pc
     ELSE i' = 1 /\ pc' = "signatures"
  /\ UNCHANGED <<data, conf, tutorials, outdir, view, indexUrl, globalUrl,
                 sourceFiles, signed, outputSourceFiles, stack, rendered,
                 written, errors, helperVars>>

\* The second loop, one doclet a step: createLink and registerLink (the
\* doclet's meta.shortpath, which only the templates read, is left out).
RegisterLinks ==
  /\ pc = "register"
  /\ LET cl == createLink(files, longnameToUrl, data[i])
     IN  /\ files' = cl.files
         /\ longnameToUrl' = registerLink(cl.table, data[i].longname, cl.url)
  /\ IF i < Len(data) THEN i' = i + 1 /\ pc' = pc
     ELSE i' = 1 /\ pc' = "signatures"
  /\ UNCHANGED <<data, conf, tutorials, outdir, view, indexUrl, globalUrl,
                 sourceFiles, signed, outputSourceFiles, stack, rendered,
                 written, errors, helperVars>>

\* The third loop: ids and signatures.
AddSignatures ==
  /\ pc = "signatures"
  /\ signed' = {k \in 1..Len(data) : needsSignature(data[k])}
  /\ pc' = IF Len(data) > 0 THEN "ancestors" ELSE "nav"
  /\ i' = 1
  /\ UNCHANGED <<data, conf, tutorials, outdir, view, files, longnameToUrl,
                 indexUrl, globalUrl, sourceFiles, outputSourceFiles, stack,
                 rendered, written, errors, helperVars>>

\* The fourth loop, one doclet a step: getAncestorLinks(doclet), which reads the
\* link table (the signature strings of members are left out).
AncestorLinks ==
  /\ pc = "ancestors"
  /\ IF i < Len(data) THEN i' = i + 1 /\ pc' = pc
     ELSE i' = 1 /\ pc' = "nav"
  /\ UNCHANGED <<data, conf, tutorials, outdir, view, files, longnameToUrl,
                 indexUrl, globalUrl, sourceFiles, signed, outputSourceFiles,
                 stack, rendered, written, errors, helperVars>>

\* getMembers, outputSourceFiles, the view's helpers, buildNav,
\* attachModuleSymbols.
BuildNav ==
  /\ pc = "nav"
  /\ outputSourceFiles' = OutputSourceFiles(conf)
  /\ pc' = IF outputSourceFiles' /\ Len(sourceFiles) > 0 THEN "sources"
           ELSE "global"
  /\ i' = 1
  /\ UNCHANGED <<data, conf, tutorials, outdir, view, files, longnameToUrl,
                 indexUrl, globalUrl, sourceFiles, signed, stack, rendered,
                 written, errors, helperVars>>

\* Variant: the output path joined to env.opts.destination.
PageUnderDestination(type, subject, url, docs) ==
  [type |-> type, subject |-> subject, dir |-> Destination, url |-> url,
   docs |-> docs]

\* What generate and generateTutorial render and write: the output path is
\* path.join(outdir, filename).
Page(type, subject, url, docs) ==
  [type |-> type, subject |-> subject, dir |-> outdir, url |-> url,
   docs |-> docs]

Outcomes == {"ok", "render", "write"}

\* Variant: generate with its body in a try/catch that logs.
generateCaught(o, page, errs) ==
  [rendered |-> Append(rendered, page),
   written |-> IF o = "ok" THEN Append(written, page) ELSE written,
   errors |-> IF o = "ok" THEN errs
              ELSE Append(errs, [kind |-> o, at |-> page.subject,
                                 caught |-> TRUE, nwritten |-> Len(written)]),
   ok |-> TRUE]

\* generate(type, title, docs, filename, resolveLinks) when view.render throws
\* (o = "render"), fs.writeFileSync throws (o = "write") or neither does; errs
\* are the exceptions so far.  ok: generate returned.
generate(o, page, errs) ==
  [rendered |-> Append(rendered, page),
   written |-> IF o = "ok" THEN Append(written, page) ELSE written,
   errors |-> IF o = "ok" THEN errs
              ELSE Append(errs, [kind |-> o, at |-> page.subject,
                                 caught |-> FALSE, nwritten |-> Len(written)]),
   ok |-> o = "ok"]

\* generateTutorial(title, tutorial, filename), likewise
generateTutorial(o, page, errs) ==
  [rendered |-> Append(rendered, page),
   written |-> IF o = "ok" THEN Append(written, page) ELSE written,
   errors |-> IF o = "ok" THEN errs
              ELSE Append(errs, [kind |-> o, at |-> page.subject,
                                 caught |-> FALSE, nwritten |-> Len(written)]),
   ok |-> o = "ok"]

KindOrder ==
  <<"module", "class", "namespace", "mixin", "external", "interface">>

\* Variant: the six kinds tested as an if / else-if chain.
EntityScheduleFirstKindOnly ==
  LET KindsOf(key) ==
        SelectSeq(KindOrder,
                  LAMBDA kd : \E j \in 1..Len(data) :
                                data[j].longname = key /\ data[j].kind = kd)
      Entries(key) ==
        LET ks == KindsOf(key)
        IN  IF Len(ks) = 0 THEN <<>>
            ELSE <<[longname |-> key, kind |-> ks[1]]>>
      F[k \in 0..Len(longnameToUrl)] ==
        IF k = 0 THEN <<>>
        ELSE F[k - 1] \o Entries(longnameToUrl[k].key)
  IN  F[Len(longnameToUrl)]

\* The generate calls of the loop over Object.keys(longnameToUrl), in order:
\* for each key, one for each kind that has a doclet of that longname.
EntitySchedule ==
  LET KindsOf(key) ==
        SelectSeq(KindOrder,
                  LAMBDA kd : \E j \in 1..Len(data) :
                                data[j].longname = key /\ data[j].kind = kd)
      Entries(key) ==
        LET ks == KindsOf(key)
        IN  [j \in 1..Len(ks) |-> [longname |-> key, kind |-> ks[j]]]
      F[k \in 0..Len(longnameToUrl)] ==
        IF k = 0 THEN <<>>
        ELSE F[k - 1] \o Entries(longnameToUrl[k].key)
  IN  F[Len(longnameToUrl)]

\* generateSourceFiles, one file a step: the output file name, the link, the
\* read inside try/catch, then generate.
generateSourceFiles ==
  /\ pc = "sources"
  /\ LET sf == sourceFiles[i]
         sourceOutfile == getUniqueFilename(files, FileBase(sf.shortened))
     IN  /\ files' = files \cup {sourceOutfile}
         /\ longnameToUrl' =
              registerLink(longnameToUrl, sf.shortened, Url(sourceOutfile, ""))
         /\ \E readOk \in BOOLEAN, o \in Outcomes :
              LET errs == IF readOk THEN errors
                          ELSE Append(errors,
                                 [kind |-> "read", at |-> sf.shortened,
                                  caught |-> TRUE, nwritten |-> Len(written)])
                  g == generate(o,
                         Page("Source", sf.shortened, Url(sourceOutfile, ""),
                              IF readOk THEN "source" ELSE "undefined"),
                         errs)
              IN  /\ rendered' = g.rendered
                  /\ written' = g.written
                  /\ errors' = g.errors
                  /\ IF ~g.ok THEN pc' = "aborted" /\ i' = i
                     ELSE IF i < Len(sourceFiles) THEN pc' = pc /\ i' = i + 1
                     ELSE pc' = "global" /\ i' = 1
  /\ UNCHANGED <<data, conf, tutorials, outdir, view, indexUrl, globalUrl,
                 sourceFiles, signed, outputSourceFiles, stack, helperVars>>

\* if (members.globals.length) generate('', 'Global', ...)
GlobalPage ==
  /\ pc = "global"
  /\ IF Len(Globals(data)) > 0
     THEN \E o \in Outcomes :
            LET g == generate(o, Page("Global", "Global", globalUrl, "globalobj"),
                              errors)
            IN  /\ rendered' = g.rendered
                /\ written' = g.written
                /\ errors' = g.errors
                /\ pc' = IF g.ok THEN "home" ELSE "aborted"
     ELSE /\ pc' = "home"
          /\ UNCHANGED <<rendered, written, errors>>
  /\ UNCHANGED <<data, conf, tutorials, outdir, view, files, longnameToUrl,
                 indexUrl, globalUrl, sourceFiles, i, signed,
                 outputSourceFiles, stack, helperVars>>

\* generate('', 'Home', ...)
HomePage ==
  /\ pc = "home"
  /\ \E o \in Outcomes :
       LET g == generate(o, Page("Home", "Home", indexUrl, "mainpage"), errors)
       IN  /\ rendered' = g.rendered
           /\ written' = g.written
           /\ errors' = g.errors
           /\ IF ~g.ok THEN pc' = "aborted" /\ UNCHANGED stack
              ELSE IF Len(EntitySchedule) > 0
                   THEN pc' = "entities" /\ UNCHANGED stack
              ELSE pc' = "tutorials" /\ stack' = <<[node |-> 0, idx |-> 1]>>
  /\ i' = 1
  /\ UNCHANGED <<data, conf, tutorials, outdir, view, files, longnameToUrl,
                 indexUrl, globalUrl, sourceFiles, signed, outputSourceFiles,
                 helperVars>>

\* The next generate call of the loop over the link table.
EntityPage ==
  /\ pc = "entities"
  /\ LET e == EntitySchedule[i]
     IN  \E o \in Outcomes :
           LET g == generate(o,
                      Page(e.kind, e.longname,
                           Lookup(longnameToUrl, e.longname), e.kind),
                      errors)
           IN  /\ rendered' = g.rendered
               /\ written' = g.written
               /\ errors' = g.errors
               /\ IF ~g.ok THEN pc' = "aborted" /\ i' = i /\ UNCHANGED stack
                  ELSE IF i < Len(EntitySchedule)
                       THEN pc' = pc /\ i' = i + 1 /\ UNCHANGED stack
                  ELSE /\ pc' = "tutorials"
                       /\ i' = 1
                       /\ stack' = <<[node |-> 0, idx |-> 1]>>
  /\ UNCHANGED <<data, conf, tutorials, outdir, view, files, longnameToUrl,
                 indexUrl, globalUrl, sourceFiles, signed, outputSourceFiles,
                 helperVars>>

Top == stack[Len(stack)]

\* Variant: saveChildren without the recursive call.
saveChildrenNoRecursion ==
  /\ pc = "tutorials"
  /\ Top.idx <= Len(Children(tutorials, Top.node))
  /\ LET child == Children(tutorials, Top.node)[Top.idx]
     IN  \E o \in Outcomes :
           LET g == generateTutorial(o,
                      Page("Tutorial", TutorialName(child),
                           tutorialToUrl(child), "tutorial"),
                      errors)
           IN  /\ rendered' = g.rendered
               /\ written' = g.written
               /\ errors' = g.errors
               /\ IF g.ok
                  THEN /\ pc' = pc
                       /\ stack' = [stack EXCEPT ![Len(stack)].idx = @ + 1]
                  ELSE pc' = "aborted" /\ UNCHANGED stack
  /\ UNCHANGED <<data, conf, tutorials, outdir, view, files, longnameToUrl,
                 indexUrl, globalUrl, sourceFiles, i, signed,
                 outputSourceFiles, helperVars>>

\* saveChildren(node), the body of its forEach for one child:
\* generateTutorial(child), then saveChildren(child).
saveChildren ==
  /\ pc = "tutorials"
  /\ Top.idx <= Len(Children(tutorials, Top.node))
  /\ LET child == Children(tutorials, Top.node)[Top.idx]
     IN  \E o \in Outcomes :
           LET g == generateTutorial(o,
                      Page("Tutorial", TutorialName(child),
                           tutorialToUrl(child), "tutorial"),
                      errors)
           IN  /\ rendered' = g.rendered
               /\ written' = g.written
               /\ errors' = g.errors
               /\ IF g.ok
                  THEN /\ pc' = pc
                       /\ stack' =
                            Append([stack EXCEPT ![Len(stack)].idx = @ + 1],
                                   [node |-> child, idx |-> 1])
                  ELSE pc' = "aborted" /\ UNCHANGED stack
  /\ UNCHANGED <<data, conf, tutorials, outdir, view, files, longnameToUrl,
                 indexUrl, globalUrl, sourceFiles, i, signed,
                 outputSourceFiles, helperVars>>

\* saveChildren(node) returns: its forEach is through.
SaveChildrenReturn ==
  /\ pc = "tutorials"
  /\ Top.idx > Len(Children(tutorials, Top.node))
  /\ stack' = SubSeq(stack, 1, Len(stack) - 1)
  /\ pc' = IF Len(stack) = 1 THEN "done" ELSE pc
  /\ UNCHANGED <<data, conf, tutorials, outdir, view, files, longnameToUrl,
                 indexUrl, globalUrl, sourceFiles, i, signed,
                 outputSourceFiles, rendered, written, errors, helperVars>>

Next ==
  \/ Publish
  \/ ClaimSpecialFilenames
  \/ ScanDoclets
  \/ UpdateOutdir
  \/ CopyStaticFiles
  \/ RegisterLinks
  \/ AddSignatures
  \/ AncestorLinks
  \/ BuildNav
  \/ generateSourceFiles
  \/ GlobalPage
  \/ HomePage
  \/ EntityPage
  \/ saveChildren
  \/ SaveChildrenReturn

Spec == Init /\ [][Next]_vars

-----------------------------------------------------------------------------
(* The helpers, called on their own *)

SignatureKinds ==
  {"function", "class", "typedef", "member", "module", "namespace",
   "constant", "event"}

NameLists == UNION {[1..n -> TypeNameValues] : n \in 0..MaxNames}

SignatureDoclets ==
  {Doclet("x", k, "x", NoMeta, ty, "") :
     k \in SignatureKinds,
     ty \in {NoType, [present |-> TRUE, namesPresent |-> FALSE, names |-> <<>>]}
              \cup {TypeOf(ns) : ns \in NameLists}}

ParseCall ==
  /\ \E object \in JsValues :
       /\ fnInput' = object
       /\ fnOutput' = [fn |-> "parse", result |-> parse(object)]
  /\ UNCHANGED publishVars

NeedsSignatureCall ==
  /\ \E doclet \in SignatureDoclets :
       /\ fnInput' = doclet
       /\ fnOutput' = [fn |-> "needsSignature", result |-> needsSignature(doclet)]
  /\ UNCHANGED publishVars

HelperNext == ParseCall \/ NeedsSignatureCall

HelperSpec == Init /\ [][HelperNext]_vars

-----------------------------------------------------------------------------
(* Properties *)

IsEntityPage(w) == w.type \in Containers
SourcePages(log) == {k \in 1..Len(log) : log[k].type = "Source"}
EntityPages(log) == {k \in 1..Len(log) : IsEntityPage(log[k])}
TutorialPages(log) == {k \in 1..Len(log) : log[k].type = "Tutorial"}
Path(w) == <<w.dir, w.url>>

\* C1: when reading a source file fails the file is skipped: no page is
\* rendered or written for it.
C1_UnreadableFileSkipped ==
  /\ \A k \in SourcePages(rendered) : rendered[k].docs # "undefined"
  /\ \A k \in SourcePages(written) : written[k].docs # "undefined"

\* C2, as claimed: every entity's page is written exactly once, no two entity
\* pages of a run go to the same output path.
C2_NoPathWrittenTwice ==
  \A j, k \in EntityPages(written) : j # k => Path(written[j]) # Path(written[k])

\* C2, amended: for every longname of the link table and every kind among
\* module, class, namespace, mixin, external and interface that has a doclet of
\* that longname, one page is written, exactly once, to the URL registered for
\* the longname under outdir; two entity pages share their output path exactly
\* when they are pages of the same longname (of different kinds), the later
\* write replacing the earlier one.
C2_OnePagePerLongnameAndKind ==
  /\ \A j, k \in EntityPages(written) :
       /\ j # k => ~(written[j].subject = written[k].subject
                      /\ written[j].type = written[k].type)
       /\ (Path(written[j]) = Path(written[k]))
            <=> (written[j].subject = written[k].subject)
  /\ \A k \in EntityPages(written) :
       /\ Has(longnameToUrl, written[k].subject)
       /\ written[k].url = Lookup(longnameToUrl, written[k].subject)
       /\ written[k].dir = outdir
       /\ \E j \in 1..Len(data) :
            data[j].longname = written[k].subject /\ data[j].kind = written[k].type
  /\ pc \in {"tutorials", "done"} =>
       \A j \in 1..Len(data) :
         data[j].kind \in Containers =>
           \E k \in EntityPages(written) :
             written[k].subject = data[j].longname /\ written[k].type = data[j].kind

C2_Witness ==
  /\ pc = "done"
  /\ \E j, k \in EntityPages(written) :
       /\ j # k
       /\ written[j].subject = written[k].subject
       /\ Path(written[j]) = Path(written[k])
  /\ \E j, k \in EntityPages(written) : written[j].subject # written[k].subject

\* C3, as claimed: after its first assignment outdir never changes.
C3_OutdirNeverChanges == [][outdir' = outdir]_vars

\* C3, amended: within one publish run view is assigned once, when publish
\* starts, and outdir changes at most once, in the step that appends the
\* package's name and version, before anything is rendered or written; so
\* every page of the run is written under the same directory, the final outdir.
C3_OutdirSetBeforeAnyPage ==
  /\ [][/\ outdir' # outdir =>
             pc = "outdir" /\ rendered = <<>> /\ written = <<>> /\ outdir = Destination
        /\ view' # view => pc = "loaded" /\ view = "undefined"]_vars
  /\ [](\A k \in 1..Len(written) : written[k].dir = outdir)
  /\ [](\A k \in 1..Len(rendered) : rendered[k].dir = outdir)

C3_Witness ==
  /\ pc = "done"
  /\ outdir = <<"out", "pkg", "1.0">>
  /\ Len(written) >= 3

\* C4: shouldDisplayStaticMembers() is the supplied displayStaticMembers if
\* that is exactly true or false and else false, shouldSort() is the supplied
\* sort if that is exactly true or false and else true, for every input; both
\* are booleans.
C4_ParseFlags ==
  fnOutput.fn = "parse" =>
    LET isObject == fnInput.t = "object"
        dsm == IF isObject THEN fnInput.displayStaticMembers ELSE JsUndefined
        srt == IF isObject THEN fnInput.sort ELSE JsUndefined
        r == fnOutput.result
    IN  /\ r.shouldDisplayStaticMembers.t = "boolean"
        /\ r.shouldSort.t = "boolean"
        /\ r.shouldDisplayStaticMembers =
             (IF dsm.t = "boolean" THEN dsm ELSE JsFalse)
        /\ r.shouldSort = (IF srt.t = "boolean" THEN srt ELSE JsTrue)

C4_Witness ==
  /\ fnOutput.fn = "parse"
  /\ fnInput.t = "object"
  /\ fnInput.sort = JsFalse
  /\ fnInput.displayStaticMembers = [t |-> "number", v |-> "1"]
  /\ fnOutput.result.shouldSort = JsFalse
  /\ fnOutput.result.shouldDisplayStaticMembers = JsFalse

\* What is left of saveChildren's work.
TutorialMeasure ==
  IF pc # "tutorials" THEN 0
  ELSE 1 + Len(stack)
         + 2 * (Len(tutorials) - Cardinality(TutorialPages(rendered)))

\* C5: on a tutorial tree saveChildren terminates (every step of it lowers a
\* natural-number measure, and it can step until it is done) and writes a page
\* for every tutorial below the root exactly once, none for the root, a
\* parent's page before its children's.
C5_SaveChildren ==
  /\ [][pc = "tutorials" => TutorialMeasure' < TutorialMeasure]_vars
  /\ [](pc = "tutorials" => TutorialMeasure > 0 /\ ENABLED Next)
  /\ [](\A j, k \in TutorialPages(written) :
          j # k => written[j].subject # written[k].subject)
  /\ [](\A k \in TutorialPages(written) :
          \E n \in 1..Len(tutorials) :
            /\ written[k].subject = TutorialName(n)
            /\ tutorials[n] # 0 =>
                 \E j \in TutorialPages(written) :
                   j < k /\ written[j].subject = TutorialName(tutorials[n]))
  /\ [](pc = "done" =>
          \A n \in 1..Len(tutorials) :
            \E k \in TutorialPages(written) : written[k].subject = TutorialName(n))

C5_Witness ==
  /\ pc = "done"
  /\ Len(tutorials) = 3
  /\ tutorials[3] = 1
  /\ tutorials[1] = 0
  /\ tutorials[2] = 0
  /\ Cardinality(TutorialPages(written)) = 3

\* C6: a failure that is no source-file read error is not caught: publish
\* ends there with the exception, and nothing is written after it.
C6_FaultsPropagate ==
  /\ \A k \in 1..Len(errors) :
       IF errors[k].kind = "read" THEN errors[k].caught
       ELSE /\ ~errors[k].caught
            /\ pc = "aborted"
            /\ k = Len(errors)
            /\ Len(written) = errors[k].nwritten
  /\ pc = "aborted" => Len(errors) > 0 /\ ~errors[Len(errors)].caught

C6_Witness ==
  /\ pc = "aborted"
  /\ errors[Len(errors)].kind = "render"
  /\ Len(written) >= 2
  /\ Len(rendered) = Len(written) + 1
  /\ Len(tutorials) > 0

ExplicitlyDisabled == conf.default /\ conf.outputSourceFiles = "false"

\* C7: unless conf.default.outputSourceFiles is false, every source page is
\* written before the Global page, the Home page, every entity page and every
\* tutorial page; when it is false no source page is written.
C7_SourcePagesFirst ==
  /\ ExplicitlyDisabled =>
       SourcePages(rendered) = {} /\ SourcePages(written) = {}
  /\ \A j, k \in 1..Len(written) :
       j < k /\ written[k].type = "Source" => written[j].type = "Source"
  /\ ~ExplicitlyDisabled /\ SourcePages(written) # DOMAIN written =>
       \A n \in 1..Len(sourceFiles) :
         \/ \E k \in SourcePages(written) :
              written[k].subject = sourceFiles[n].shortened
         \/ \E k \in 1..Len(errors) :
              errors[k].kind = "read" /\ errors[k].at = sourceFiles[n].shortened

C7_Witness ==
  /\ pc = "done"
  /\ conf.outputSourceFiles = "undefined"
  /\ Cardinality(SourcePages(written)) = 2
  /\ \E k \in 1..Len(written) : written[k].type = "Global"
  /\ EntityPages(written) # {}

\* C8: when getAncestorLinks is called for a doclet, and when buildNav runs,
\* every doclet's longname is registered in the link table.
C8_LinksBeforeAncestorsAndNav ==
  pc \in {"ancestors", "nav"} =>
    \A k \in 1..Len(data) : Has(longnameToUrl, data[k].longname)

C8_Witness ==
  /\ pc = "ancestors"
  /\ i = 2
  /\ Len(data) = 3
  /\ \E k \in 1..Len(data) : data[k].kind \notin Containers

\* C9, as claimed: no doclet page is written to the file of the Home page or
\* of the Global page.
C9_NoDocletPageOnSpecialFiles ==
  \A k \in EntityPages(written) :
    written[k].url.file \notin {indexUrl.file, globalUrl.file}

\* C9, amended: the file names of 'index' and 'global' are claimed before any
\* doclet's URL is created, and 'global' is registered as a link target while
\* the claim leaves 'index' unregistered; so no doclet page, the page of a
\* doclet of longname 'index' included, is written to the Home page's file, and
\* a doclet page is written to the Global page's file only if the doclet's
\* longname is 'global', which resolves through the registered link.
C9_SpecialFilenames ==
  /\ pc \in {"scan", "outdir", "static"} =>
       /\ {indexUrl.file, globalUrl.file} \subseteq files
       /\ indexUrl.file # globalUrl.file
       /\ longnameToUrl = <<[key |-> "global", url |-> globalUrl]>>
  /\ Has(longnameToUrl, "index") =>
       Lookup(longnameToUrl, "index").file # indexUrl.file
  /\ \A k \in EntityPages(written) :
       /\ written[k].url.file # indexUrl.file
       /\ written[k].url.file = globalUrl.file => written[k].subject = "global"

C9_Witness ==
  /\ pc = "done"
  /\ \E k \in EntityPages(written) : written[k].subject = "index"
  /\ \E k \in EntityPages(written) :
       written[k].subject = "global" /\ written[k].url = globalUrl
  /\ \E k \in 1..Len(written) : written[k].type = "Global"

\* C10: needsSignature is true exactly for kind function or class, and for a
\* typedef with a type name that is 'function' in any letter case.
C10_NeedsSignature ==
  fnOutput.fn = "needsSignature" =>
    fnOutput.result =
      \/ fnInput.kind \in {"function", "class"}
      \/ /\ fnInput.kind = "typedef"
         /\ \E k \in 1..Len(fnInput.type.names) :
              fnInput.type.names[k] \in {"function", "Function", "FUNCTION"}

C10_Witness ==
  /\ fnOutput.fn = "needsSignature"
  /\ fnInput.kind = "typedef"
  /\ fnInput.type.names = <<"string", "FUNCTION">>
  /\ fnOutput.result

====
